---- MODULE Spec2Model ----
(***************************************************************************)
(* Model of the Deep Q-Learning agent and of the Finance environment of    *)
(* the rl4f notebooks (02_rlfinance: CartPole agent, 03: Finance           *)
(* environment and financial agent).                                       *)
(*                                                                         *)
(* Numbers.  epsilon is the exact rational <<num, den>>; min_accuracy is   *)
(* kept in thousandths (0.495 -> 495) and accuracy is the exact rational   *)
(* <<treward, bar - n_features>>, compared by cross-multiplication.        *)
(***************************************************************************)
EXTENDS Integers, Sequences, FiniteSets, TLC

\* ------------------------------------------------------------------ bounds
\* deque(maxlen=2000), scaled down
Capacity == 2
\* batch_size = 32, scaled down
BatchSize == 1
\* epsilon_decay = 0.9975 = 399/400 is modelled as (DecayDen - 1) / DecayDen
DecayDen == 2
\* learn: for f in range(1, 5000); test: for f in range(1, 5001)
RangeEndLearn == 3
\* training episodes over all learn calls
MaxEpisodes == 2
\* appends followed in the replay-buffer specification
MaxAppends == 8
\* RandomAgent.play: for step in range(1, 100), scaled down
RangeEndPlay == 3

\* --------------------------------------------------------- program constants
\* epsilon_min = 0.1 = 1 / EpsilonMinDen
EpsilonMinDen == 10
\* Finance.step: (self.bar > 15)
MinBar == 15
\* test: self.env.min_accuracy = 0.5, in thousandths
TestMinAccuracy == 500

Actions == {0, 1}
\* the parameter settings of the approximator that are told apart
Weights == {0, 1}
\* the arguments of test that are tried
TestArgs == {1, 2}
RangeEndTest == RangeEndLearn + 1

VARIABLES
    \* Finance / gym environment
    kind,          \* "finance" | "gym": which notebook's agent; "play": the
                   \* RandomAgent of the financial notebook
    data,          \* Finance.data: rows [p, r, d]
    feature,       \* Finance.feature: "p" | "r"
    n_features,    \* Finance.n_features
    min_accuracy,  \* Finance.min_accuracy, thousandths
    isReset,       \* bar and treward exist (reset has run)
    bar,           \* Finance.bar
    treward,       \* Finance.treward
    accuracy,      \* Finance.accuracy: <<>> before the first step, else <<num, den>>
    \* DQLAgent
    epsilon,       \* <<num, den>>
    memory,        \* deque of [state, action, next_state, reward, done]
    model,         \* parameters of the approximator
    trewards,
    max_treward,
    \* the running call
    pc,            \* "idle" | "learn_episode" | "learn_step" | "learn_replay"
                   \*        | "test_episode" | "test_step"
                   \*        | "play_episode" | "play_step"
    episodes,      \* argument of learn / test
    e,             \* episode loop variable
    f,             \* step loop variable
    state,         \* local variable state of learn / test
    ma,            \* local variable ma of test
    ret,           \* what the last environment call returned
    raised,        \* exception that ended the last call, or "none"
    \* history (not program state)
    epSteps,       \* Finance: step calls since the last reset
    epOnes,        \* Finance: those of them that returned reward 1
    doneCause,     \* why the last step returned done: "none" | "data" | "accuracy"
    lastEnd,       \* what learn did after its last episode
    lastAction,    \* the last action chosen by learn / test, with how it was chosen
    hist,          \* every transition appended (replay-buffer specification);
                   \* the calls since reset (episode specification); the
                   \* passes of replay (replay specification); the test calls
                   \* and the outcomes of their episodes since the last
                   \* training (financial agent); what one call of learn
                   \* over all the passes leaves (learn specification)
    learned        \* training episodes asked of learn so far

envVars   == <<kind, data, feature, n_features, min_accuracy, isReset, bar,
               treward, accuracy>>
agentVars == <<epsilon, memory, model, trewards, max_treward>>
frameVars == <<pc, episodes, e, f, state, ma>>
histVars  == <<epSteps, epOnes, doneCause>>
vars == <<envVars, agentVars, frameVars, ret, raised, histVars, lastEnd,
          lastAction, hist, learned>>

\* ---------------------------------------------------------------- helpers
RECURSIVE SumSeq(_)
SumSeq(s) == IF s = <<>> THEN 0 ELSE Head(s) + SumSeq(Tail(s))

Max(a, b) == IF a >= b THEN a ELSE b
Min(a, b) == IF a <= b THEN a ELSE b

\* rationals <<num, den>> with den > 0
RatLess(x, y) == x[1] * y[2] < y[1] * x[2]
RatLeq(x, y)  == x[1] * y[2] <= y[1] * x[2]
RatEq(x, y)   == x[1] * y[2] = y[1] * x[2]
RatMul(x, y)  == <<x[1] * y[1], x[2] * y[2]>>

\* ------------------------------------------------------------ Finance data
\* A raw price column of the CSV, by shape.
RawSeries(shape, len) ==
    [t \in 1 .. len |->
        CASE shape = "up"     -> 10 + t
          [] shape = "down"   -> 60 - t
          [] shape = "zigzag" -> 10 + (t % 2)
          [] shape = "flat"   -> 10]

\* Finance._prepare_data: r = log(p[t] / p[t-1]) is kept by the difference
\* p[t] - p[t-1], which has the same sign; d = 1 iff r > 0; the first row
\* (r is NaN) is dropped.  q is the price of the row before (the
\* denominator of r).
PrepareData(raw) ==
    [t \in 1 .. (Len(raw) - 1) |->
        [p |-> raw[t + 1],
         q |-> raw[t],
         r |-> raw[t + 1] - raw[t],
         d |-> IF raw[t + 1] - raw[t] > 0 THEN 1 ELSE 0]]

\* Finance.data_[feature] = (data - mean) / std, row i (1-based): kept as
\* N * x - sum, which is (x - mean) / std times the positive factor N * std.
RECURSIVE ColumnSum(_, _)
ColumnSum(col, i) == IF i = 0 THEN 0 ELSE data[i][col] + ColumnSum(col, i - 1)

\* self.data.std() of a column is 0 (or NaN, for a single row): all its
\* values are equal; for r = log(p / q), all the ratios p / q are equal
ZeroStd(col) ==
    IF col = "r"
    THEN \A i \in DOMAIN data : data[i].p * data[1].q = data[1].p * data[i].q
    ELSE \A i \in DOMAIN data : data[i][col] = data[1][col]

\* 0 / 0 in the standardization: kept as a value that no standardized value
\* of the model takes
NaN == 0 - 1000000

data_(col, i) ==
    IF ZeroStd(col) THEN NaN
    ELSE Len(data) * data[i][col] - ColumnSum(col, Len(data))

\* self.data_[self.feature].iloc[self.bar - self.n_features:self.bar].values:
\* rows bar - n_features .. bar - 1 (0-based), cut at the ends of the column
WindowAhead(b) ==
    LET lo == Max(b + 1 - n_features, 0)
        hi == Min(b + 1, Len(data))
    IN  IF hi <= lo THEN <<>>
        ELSE [i \in 1 .. (hi - lo) |-> data_(feature, lo + i)]
Window(b) ==
    LET lo == Max(b - n_features, 0)
        hi == Min(b, Len(data))
    IN  IF hi <= lo THEN <<>>
        ELSE [i \in 1 .. (hi - lo) |-> data_(feature, lo + i)]

\* ------------------------------------------------------------ Finance.step
\* self.accuracy = self.treward / (self.bar - self.n_features)
AccuracyOf(tr, b) == <<tr, b - n_features>>

\* self.bar >= len(self.data)
DataExhaustedOff(b) == b > Len(data)
DataExhausted(b) == b >= Len(data)

\* (self.accuracy < self.min_accuracy) and (self.bar > 15)
AccuracyStopAnyBar(acc, b) == RatLess(acc, <<min_accuracy, 1000>>)
AccuracyStop(acc, b) == RatLess(acc, <<min_accuracy, 1000>>) /\ b > MinBar

\* Finance.reset: self.treward = 0
ResetTrewardKeep == treward
ResetTreward == 0

\* Finance.step: correct iff action == self.data['d'].iloc[self.bar];
\* reward = 1 if correct else 0
RewardAlwaysOne(action, d) == 1
Reward(action, d) == IF action = d THEN 1 ELSE 0

\* Finance.reset: self.bar = self.n_features
ResetBarOnce == IF isReset THEN bar ELSE n_features
ResetBar == n_features

\* Finance.step: if self.bar >= len(self.data): done = True; elif reward == 1:
\* done = False; elif accuracy < min_accuracy and bar > 15: done = True;
\* else: done = False. The branch that set done = True, or "none".
DoneCauseAnyReward(reward, acc, b) ==
    IF DataExhausted(b) THEN "data"
    ELSE IF AccuracyStop(acc, b) THEN "accuracy"
    ELSE "none"
DoneCause(reward, acc, b) ==
    IF DataExhausted(b) THEN "data"
    ELSE IF reward = 1 THEN "none"
    ELSE IF AccuracyStop(acc, b) THEN "accuracy"
    ELSE "none"

\* Finance.step(action) with self.bar = b0 < len(data) and self.treward = tr0:
\* the new fields and the return.
StepAt(b0, tr0, action) ==
    LET reward  == Reward(action, data[b0 + 1].d)
        tr      == tr0 + reward
        b       == b0 + 1
        acc     == AccuracyOf(tr, b)
        cause   == DoneCause(reward, acc, b)
    IN  [obs |-> Window(b), reward |-> reward, done |-> cause # "none",
         trunc |-> FALSE, bar |-> b, treward |-> tr, accuracy |-> acc,
         cause |-> cause]

FinStepOut(action) == StepAt(bar, treward, action)

\* gym's CartPole-v1 is not code of the notebooks: reset and step return any
\* observation, reward 1.0 and any terminated / truncated flags.
GymObs == {<<0, 0, 0, 0>>}

GymStepOut ==
    {[obs |-> o, reward |-> 1, done |-> d, trunc |-> t, bar |-> bar,
      treward |-> treward, accuracy |-> accuracy,
      cause |-> "none"] :
        o \in GymObs, d \in BOOLEAN, t \in BOOLEAN}

\* env.step(action): the possible outcomes; none when Finance.step raises
\* IndexError (data['d'].iloc[bar] with bar >= len(data)) or AttributeError
\* (no reset yet).
StepOutcomes(action) ==
    IF kind = "gym" THEN GymStepOut
    ELSE IF isReset /\ bar < Len(data) THEN {FinStepOut(action)}
    ELSE {}

\* env.reset(): the initial observations
ResetObs == IF kind = "gym" THEN GymObs ELSE {Window(n_features)}

\* the environment's fields after reset / after a step with outcome o
EnvReset ==
    /\ IF kind = "gym"
       THEN UNCHANGED <<isReset, bar, treward>>
       ELSE isReset' = TRUE /\ bar' = ResetBar /\ treward' = ResetTreward
    /\ UNCHANGED <<kind, data, feature, n_features, accuracy>>
    /\ epSteps' = 0
    /\ epOnes' = 0
    /\ doneCause' = "none"

EnvStep(o) ==
    /\ bar' = o.bar
    /\ treward' = o.treward
    /\ accuracy' = o.accuracy
    /\ UNCHANGED <<kind, data, feature, n_features, isReset>>
    /\ IF kind = "gym"
       THEN UNCHANGED histVars
       ELSE /\ epSteps' = epSteps + 1
            /\ epOnes' = epOnes + (IF o.reward = 1 THEN 1 ELSE 0)
            /\ doneCause' = o.cause

Ret(op, o) == [op |-> op, obs |-> o.obs, reward |-> o.reward, done |-> o.done,
               trunc |-> o.trunc]
NoRet == [op |-> "none", obs |-> <<>>, reward |-> 0, done |-> FALSE,
          trunc |-> FALSE]

\* ---------------------------------------------------------------- DQLAgent
\* self.epsilon_min = 0.1, self.epsilon_decay = 0.9975
EpsilonMin == <<1, EpsilonMinDen>>
EpsilonDecay == <<DecayDen - 1, DecayDen>>

\* replay: if self.epsilon > self.epsilon_min: self.epsilon *= self.epsilon_decay
DecayedEpsilonGrow(eps) ==
    IF RatLess(EpsilonMin, eps)
    THEN RatMul(eps, <<EpsilonDecay[2], EpsilonDecay[1]>>)
    ELSE eps
DecayedEpsilonAlways(eps) == RatMul(eps, EpsilonDecay)
DecayedEpsilon(eps) ==
    IF RatLess(EpsilonMin, eps) THEN RatMul(eps, EpsilonDecay) ELSE eps

\* deque(maxlen=Capacity).append(x)
DequeAppendUnbounded(q, x) == Append(q, x)
DequeAppendDropNewest(q, x) ==
    IF Len(q) >= Capacity THEN Append(SubSeq(q, 1, Len(q) - 1), x)
    ELSE Append(q, x)
DequeAppend(q, x) ==
    IF Len(q) >= Capacity THEN Append(Tail(q), x) ELSE Append(q, x)

\* self.model.predict(state)[0]: keras is not code of the notebooks; the
\* forward pass is some fixed function of the parameters and the state.
\* The two outputs, by action.
Predict(w, s) ==
    [a \in Actions |-> ((w + 1) * (a + 1) + (SumSeq(s) % 3) * (2 - a)) % 3]

\* np.argmax(self.model.predict(state)[0]): the first maximum
Greedy(w, s) == IF Predict(w, s)[0] >= Predict(w, s)[1] THEN 0 ELSE 1

\* np.amax(self.model.predict(next_state)[0])
MaxQ(w, s) == Max(Predict(w, s)[0], Predict(w, s)[1])

\* self.gamma, in tenths: 0.5 (financial agent), 0.9 (CartPole agent)
Gamma10 == IF kind = "gym" THEN 9 ELSE 5

\* replay: the target vector of one sampled transition, in tenths
TargetNoTerminal(w, t) ==
    LET reward == 10 * t.reward + Gamma10 * MaxQ(w, t.next_state)
    IN  [a \in Actions |->
            IF a = t.action THEN reward ELSE 10 * Predict(w, t.state)[a]]
TargetAllActions(w, t) ==
    LET reward == IF t.done THEN 10 * t.reward
                  ELSE 10 * t.reward + Gamma10 * MaxQ(w, t.next_state)
    IN  [a \in Actions |-> reward]
Target(w, t) ==
    LET reward == IF t.done THEN 10 * t.reward
                  ELSE 10 * t.reward + Gamma10 * MaxQ(w, t.next_state)
    IN  [a \in Actions |->
            IF a = t.action THEN reward ELSE 10 * Predict(w, t.state)[a]]

\* self.model.fit(state, target, ...): the optimizer's step may leave any
\* parameters.
Fit(w, s, target) == Weights

\* self.model.fit(..., epochs=1) (financial agent), epochs=2 (CartPole agent)
Epochs == IF kind = "gym" THEN 2 ELSE 1

\* random.sample(self.memory, n): positions, in sampled order
BatchesOf(n) ==
    {b \in [1 .. n -> 1 .. Len(memory)] :
        \A i, j \in 1 .. n : i # j => b[i] # b[j]}

\* random.sample(self.memory, self.batch_size)
Batches == BatchesOf(BatchSize)

\* the loop of replay over the batch: the parameters it may end with
RECURSIVE ReplayModels(_, _)
ReplayModels(batch, w) ==
    IF batch = <<>> THEN {w}
    ELSE LET t == memory[Head(batch)]
         IN  UNION {ReplayModels(Tail(batch), w2) :
                        w2 \in Fit(w, t.state, Target(w, t))}

\* replay: `for state, action, next_state, reward, done in batch` binds the
\* fields of each sampled transition to local names, and `reward += ...`
\* binds the local name to a new number. The buffer after the loop.
ReplayMemoryInPlace(batch) ==
    [i \in 1 .. Len(memory) |->
        IF (\E j \in 1 .. Len(batch) : batch[j] = i) /\ ~memory[i].done
        THEN [memory[i] EXCEPT
                !.reward = 10 * @ + Gamma10 * MaxQ(model, memory[i].next_state)]
        ELSE memory[i]]
ReplayMemory(batch) == memory

\* the loop of replay over the batch, pass by pass: the sampled transition,
\* the parameters before the pass, the target given to fit, the epochs of
\* the fit and the parameters after it
RECURSIVE ReplayRuns(_, _)
ReplayRuns(batch, w) ==
    IF batch = <<>> THEN {<<>>}
    ELSE LET t      == memory[Head(batch)]
             target == Target(w, t)
         IN  UNION {{<<[t |-> t, w |-> w, target |-> target,
                        epochs |-> Epochs, fitted |-> w2]>> \o r :
                            r \in ReplayRuns(Tail(batch), w2)} :
                        w2 \in Fit(w, t.state, target)}

\* act(state): the actions it may return
ActChoices ==
    (IF epsilon[1] > 0 THEN Actions ELSE {})
        \cup (IF RatLess(epsilon, <<1, 1>>) THEN {Greedy(model, state)} ELSE {})

\* test: action = np.argmax(self.model.predict(state)[0])
TestChoicesByAct == ActChoices
TestChoices == {Greedy(model, state)}

\* for f in range(1, end): the value of f in the next pass
RangeNextStuck(x) == x
RangeNext(x) == x + 1

\* learn: if len(self.memory) > self.batch_size
ReplayDueAtLeast == Len(memory) >= BatchSize
ReplayDue == Len(memory) > BatchSize

\* learn: `if done` (financial agent), `if done or trunc` (CartPole agent)
EpisodeOver(o) == IF kind = "gym" THEN o.done \/ o.trunc ELSE o.done

\* replay() on a buffer of at least batch_size transitions
ReplayEffect ==
    /\ \E b \in Batches :
            /\ model' \in ReplayModels(b, model)
            /\ memory' = ReplayMemory(b)
    /\ epsilon' = DecayedEpsilon(epsilon)
    /\ UNCHANGED <<trewards, max_treward>>

\* -------------------------------------------------------------------- Init
\* Finance(symbol, feature, min_accuracy, n_features) over a CSV column
Config(len, n, shape, feat, minacc) ==
    [len |-> len, n |-> n, shape |-> shape, feature |-> feat,
     min_accuracy |-> minacc]

\* environments of the environment specification: len(data), n_features
EnvConfigs ==
    {Config(c[1], c[2], sh, ft, m) :
        c \in {<<20, 4>>, <<17, 4>>},
        sh \in {"up", "zigzag"}, ft \in {"p", "r"}, m \in {485}}
    \cup {Config(18, 3, "down", "r", 495)}
    \* fewer rows than n_features
    \cup {Config(3, 4, "up", "p", 485)}
    \* fewer than 16 rows; more than 16 features
    \cup {Config(12, 4, "zigzag", "p", 485), Config(19, 17, "zigzag", "r", 485)}

\* environments of the financial agent
AgentConfigs ==
    {Config(17, 15, sh, "r", 495) : sh \in {"up", "zigzag"}}

InitAgent ==
    /\ epsilon = <<1, 1>>
    /\ memory = <<>>
    /\ model \in Weights
    /\ trewards = <<>>
    /\ max_treward = 0

InitFields ==
    /\ isReset = FALSE
    /\ bar = 0
    /\ treward = 0
    /\ accuracy = <<>>
    /\ pc = "idle"
    /\ episodes = 0
    /\ e = 0
    /\ f = 0
    /\ state = <<>>
    /\ ma = 0
    /\ ret = NoRet
    /\ epSteps = 0
    /\ epOnes = 0
    /\ doneCause = "none"
    /\ lastEnd = <<>>
    /\ lastAction = [by |-> "none", a |-> 0]
    /\ hist = <<>>
    /\ learned = 0

InitRest == InitFields /\ raised = "none"

InitFinance(cfgs) ==
    /\ kind = "finance"
    /\ \E c \in cfgs :
        /\ data = PrepareData(RawSeries(c.shape, c.len + 1))
        /\ feature = c.feature
        /\ n_features = c.n
        /\ min_accuracy = c.min_accuracy

InitGym ==
    /\ kind = "gym"
    /\ data = <<>>
    /\ feature = "r"
    /\ n_features = 4
    /\ min_accuracy = 0

Init == (InitFinance(AgentConfigs) \/ InitGym) /\ InitAgent /\ InitRest

InitEnv == InitFinance(EnvConfigs) /\ InitAgent /\ InitRest

InitMem == InitGym /\ InitAgent /\ InitRest

\* ----------------------------------------------- environment, called directly
\* fin.reset()
Reset ==
    /\ pc = "idle"
    /\ EnvReset
    /\ \E o \in ResetObs :
        ret' = [op |-> "reset", obs |-> o, reward |-> 0, done |-> FALSE,
                trunc |-> FALSE]
    /\ raised' = "none"
    /\ UNCHANGED <<min_accuracy, agentVars, frameVars, lastEnd, lastAction, hist, learned>>

\* fin.step(action)
Step(action) ==
    /\ pc = "idle"
    /\ \E o \in StepOutcomes(action) :
        /\ EnvStep(o)
        /\ ret' = Ret("step", o)
    /\ raised' = "none"
    /\ UNCHANGED <<min_accuracy, agentVars, frameVars, lastEnd, lastAction, hist, learned>>

\* fin.step(action) before any reset (AttributeError) or with
\* bar >= len(data) (IndexError): raised before any field is assigned
StepRaises(action) ==
    /\ pc = "idle"
    /\ StepOutcomes(action) = {}
    /\ raised' = IF isReset THEN "IndexError" ELSE "AttributeError"
    /\ ret' = NoRet
    /\ UNCHANGED <<envVars, agentVars, frameVars, histVars, lastEnd,
                   lastAction, hist, learned>>

NextEnv ==
    \/ Reset
    \/ \E a \in Actions : Step(a)
    \/ \E a \in Actions : StepRaises(a)

SpecEnv == InitEnv /\ [][NextEnv]_vars

\* ------------------------------------------- Finance(symbol, feature)
\* the columns of the CSV, and the symbols asked for
Columns == {"up", "zigzag", "flat"}
Symbols == Columns \cup {"missing"}

\* Finance(symbol, feature) over a CSV of 9 rows: _prepare_data raises
\* KeyError at self.raw[self.symbol] for a symbol that is not a column, and
\* no environment is returned; otherwise the constructor returns
InitConstruct ==
    /\ kind = "finance"
    /\ n_features = 4
    /\ min_accuracy = 485
    /\ feature \in {"p", "r"}
    /\ \E symbol \in Symbols :
        IF symbol \in Columns
        THEN data = PrepareData(RawSeries(symbol, 9)) /\ raised = "none"
        ELSE data = <<>> /\ raised = "KeyError"
    /\ InitAgent
    /\ InitFields

\* the calls on the environment the constructor returned
NextConstruct ==
    \/ data # <<>> /\ Reset
    \/ data # <<>> /\ \E a \in Actions : Step(a)
    \/ data # <<>> /\ \E a \in Actions : StepRaises(a)

SpecConstruct == InitConstruct /\ [][NextConstruct]_vars

\* ------------------------------- environment, with the calls of an episode
\* environments of the episode specification
EpConfigs ==
    {Config(19, 14, sh, ft, 485) : sh \in {"up", "zigzag"}, ft \in {"p", "r"}}

InitEp == InitFinance(EpConfigs) /\ InitAgent /\ InitRest

\* fin.reset(); hist restarts with what reset returned and with how the
\* episode before stood (its step calls, whether its last step returned done)
ResetRecorded ==
    /\ pc = "idle"
    /\ EnvReset
    /\ \E o \in ResetObs :
        /\ ret' = [op |-> "reset", obs |-> o, reward |-> 0, done |-> FALSE,
                   trunc |-> FALSE]
        /\ hist' = <<[op |-> "reset", obs |-> o, prior |-> epSteps,
                      priorDone |-> ret.done]>>
    /\ raised' = "none"
    /\ UNCHANGED <<min_accuracy, agentVars, frameVars, lastEnd, lastAction,
                   learned>>

\* fin.step(action); hist gets the action and what step returned
StepRecorded(action) ==
    /\ pc = "idle"
    /\ \E o \in StepOutcomes(action) :
        /\ EnvStep(o)
        /\ ret' = Ret("step", o)
        /\ hist' = Append(hist, [op |-> "step", action |-> action,
                                 obs |-> o.obs, reward |-> o.reward,
                                 done |-> o.done])
    /\ raised' = "none"
    /\ UNCHANGED <<min_accuracy, agentVars, frameVars, lastEnd, lastAction,
                   learned>>

NextEp ==
    \/ ResetRecorded
    \/ \E a \in Actions : StepRecorded(a)
    \/ \E a \in Actions : StepRaises(a)

SpecEp == InitEp /\ [][NextEp]_vars

\* ------------------------------------------------------------ replay buffer
\* the transitions told apart in the replay-buffer specification
MemTransitions ==
    {[state |-> o, action |-> a, next_state |-> o, reward |-> 1,
      done |-> FALSE] : o \in GymObs, a \in Actions}

\* learn: self.memory.append([state, action, next_state, reward, done])
Remember(t) ==
    /\ Len(hist) < MaxAppends
    /\ memory' = DequeAppend(memory, t)
    /\ hist' = Append(hist, t)
    /\ UNCHANGED <<envVars, epsilon, model, trewards, max_treward, frameVars,
                   ret, raised, histVars, lastEnd, lastAction, learned>>

NextMem == \E t \in MemTransitions : Remember(t)

SpecMem == InitMem /\ [][NextMem]_vars

\* ------------------------------------------------ replay, pass by pass
\* batch_size of the agent of the replay specification
ReplayBatchSize == BatchSize + 1

\* the transitions told apart in the replay specification
ReplayTransitions ==
    {[state |-> <<0, 0, 0, 0>>, action |-> a, next_state |-> <<1, 0, 0, 0>>,
      reward |-> r, done |-> d] :
        a \in Actions, r \in {0, 1}, d \in BOOLEAN}

\* an agent of either notebook whose buffer holds batch_size transitions
InitReplay ==
    /\ kind \in {"finance", "gym"}
    /\ data = <<>>
    /\ feature = "r"
    /\ n_features = 4
    /\ min_accuracy = 0
    /\ epsilon = <<1, 1>>
    /\ memory \in [1 .. ReplayBatchSize -> ReplayTransitions]
    /\ model \in Weights
    /\ trewards = <<>>
    /\ max_treward = 0
    /\ InitRest

\* agent.replay(), once; hist gets the passes of its loop
ReplayRecorded ==
    /\ pc = "idle"
    /\ hist = <<>>
    /\ Len(memory) >= ReplayBatchSize
    /\ \E b \in BatchesOf(ReplayBatchSize) : \E run \in ReplayRuns(b, model) :
        /\ hist' = run
        /\ model' = run[Len(run)].fitted
        /\ memory' = ReplayMemory(b)
    /\ epsilon' = DecayedEpsilon(epsilon)
    /\ raised' = "none"
    /\ ret' = [NoRet EXCEPT !.op = "replay"]
    /\ UNCHANGED <<envVars, trewards, max_treward, frameVars,
                   histVars, lastEnd, lastAction, learned>>

NextReplay == ReplayRecorded

SpecReplay == InitReplay /\ [][NextReplay]_vars

\* ------------------------------------------------ history of the test calls
\* a call of test by the financial agent: noted, twice at most
TestNoted(h) ==
    IF kind = "finance" /\ Cardinality({i \in DOMAIN h : h[i].op = "test"}) < 2
    THEN Append(h, [op |-> "test", len |-> 0, accuracy |-> <<>>])
    ELSE h

\* an episode of test of the financial agent ended after len passes with
\* env.accuracy = acc: noted unless an episode with this outcome is
EpisodeNoted(h, len, acc) ==
    LET x == [op |-> "episode", len |-> len, accuracy |-> acc]
    IN  IF kind = "finance" /\ ~(\E i \in DOMAIN h : h[i] = x)
        THEN Append(h, x)
        ELSE h

\* ------------------------------------------------------------------- learn
NoAction == [by |-> "none", a |-> 0]

\* learn / test return: their local variables are gone
Return ==
    /\ pc' = "idle"
    /\ episodes' = 0
    /\ e' = 0
    /\ f' = 0
    /\ state' = <<>>
    /\ ma' = 0
    /\ ret' = NoRet
    /\ lastEnd' = <<>>
    /\ lastAction' = NoAction

\* agent.learn(n) is called
\* learn assigns no field of the agent before its loop
LearnCallAgentFresh ==
    /\ trewards' = <<>>
    /\ max_treward' = 0
    /\ UNCHANGED <<epsilon, memory, model>>
LearnCallAgent == UNCHANGED agentVars

LearnCallBody(n) ==
    /\ pc = "idle"
    /\ learned + n <= MaxEpisodes
    /\ learned' = learned + n
    /\ pc' = "learn_episode"
    /\ episodes' = n
    /\ e' = 1
    /\ raised' = "none"
    /\ ret' = NoRet
    /\ LearnCallAgent
    /\ UNCHANGED <<envVars, f, state, ma, histVars, lastEnd, lastAction>>

LearnCall(n) == LearnCallBody(n) /\ hist' = <<>>

\* for e in range(1, episodes + 1): state, _ = self.env.reset()
LearnEpisode ==
    /\ pc = "learn_episode"
    /\ e <= episodes
    /\ EnvReset
    /\ \E o \in ResetObs :
        /\ state' = o
        /\ ret' = [op |-> "reset", obs |-> o, reward |-> 0, done |-> FALSE,
                   trunc |-> FALSE]
    /\ f' = 1
    /\ pc' = "learn_step"
    /\ UNCHANGED <<min_accuracy, agentVars, episodes, e, ma, raised, lastEnd,
                   lastAction, hist, learned>>

\* the episode loop is over: learn returns
LearnReturn ==
    /\ pc = "learn_episode"
    /\ e > episodes
    /\ Return
    /\ UNCHANGED <<envVars, agentVars, raised, histVars, hist, learned>>

\* one pass of `for f in range(1, 5000)`: act, step, append, and the end of
\* the loop by `break` or by the end of the range
\* learn: self.memory.append([state, action, next_state, reward, done]):
\* the last field, of what step returned
StoredFlagOver(o) == EpisodeOver(o)
StoredFlag(o) == o.done

\* learn: self.max_treward = max(self.max_treward, f)
BestTrewardLast(best, len) == len
BestTreward(best, len) == Max(best, len)

LearnPass(action, o) ==
    /\ pc = "learn_step"
    /\ EnvStep(o)
    /\ ret' = Ret("step", o)
    /\ lastAction' = [by |-> "learn", a |-> action]
    /\ memory' = DequeAppend(memory,
                    [state |-> state, action |-> action,
                     next_state |-> o.obs, reward |-> o.reward,
                     done |-> StoredFlag(o)])
    /\ state' = o.obs
    /\ IF EpisodeOver(o)
       THEN /\ trewards' = Append(trewards, f)
            /\ max_treward' = BestTreward(max_treward, f)
            /\ pc' = "learn_replay"
            /\ f' = f
       ELSE /\ UNCHANGED <<trewards, max_treward>>
            /\ IF RangeNext(f) < RangeEndLearn
               THEN f' = RangeNext(f) /\ pc' = pc
               ELSE f' = f /\ pc' = "learn_replay"
    /\ UNCHANGED <<min_accuracy, epsilon, model, episodes, e, ma, raised,
                   lastEnd, learned>>

LearnStep ==
    /\ \E action \in ActChoices : \E o \in StepOutcomes(action) :
            LearnPass(action, o)
    /\ UNCHANGED hist

\* after the step loop: if len(self.memory) > self.batch_size: self.replay()
LearnEnd ==
    /\ pc = "learn_replay"
    /\ IF ReplayDue THEN ReplayEffect ELSE UNCHANGED agentVars
    /\ lastEnd' = <<Len(memory), IF ReplayDue THEN 1 ELSE 0>>
    /\ e' = e + 1
    /\ pc' = "learn_episode"
    /\ UNCHANGED <<envVars, episodes, f, state, ma, ret, raised, histVars,
                   lastAction, learned>>

LearnReplay == LearnEnd /\ UNCHANGED hist

\* ------------------------------------- learn, with its draws and returns
\* One call of learn over the passes h (the action drawn and what step
\* returned; at the end of an episode, the parameters the approximator is
\* left with): the fields it leaves an agent with that starts from st (f is
\* the pass of the running episode).
RECURSIVE LearnOnce(_, _)
LearnOnce(h, st) ==
    IF h = <<>> THEN st
    ELSE LET x == Head(h)
             over == IF x.op = "step"
                     THEN IF kind = "gym" THEN x.done \/ x.trunc ELSE x.done
                     ELSE FALSE
             due == Len(st.memory) > BatchSize
             nxt ==
                IF x.op = "step"
                THEN [st EXCEPT
                        !.memory = DequeAppend(@, [state |-> x.state,
                                        action |-> x.action,
                                        next_state |-> x.obs,
                                        reward |-> x.reward,
                                        done |-> StoredFlag(x)]),
                        !.trewards = IF over THEN Append(@, st.f) ELSE @,
                        !.max_treward = IF over THEN BestTreward(@, st.f) ELSE @,
                        !.f = @ + 1]
                ELSE [st EXCEPT
                        !.model = x.model,
                        !.epsilon = IF due THEN DecayedEpsilon(@) ELSE @,
                        !.f = 1]
         IN  LearnOnce(Tail(h), nxt)

\* a newly constructed agent
LearnStart ==
    [memory |-> <<>>, trewards |-> <<>>, max_treward |-> 0,
     epsilon |-> <<1, 1>>, model |-> model, f |-> 1]

\* hist is what one call of learn over all the passes so far, of every call,
\* leaves a newly constructed agent with
Once == IF hist = <<>> THEN LearnStart ELSE hist

LearnCallRecorded(n) == LearnCallBody(n) /\ UNCHANGED hist

LearnStepRecorded ==
    \E action \in ActChoices : \E o \in StepOutcomes(action) :
        /\ LearnPass(action, o)
        /\ hist' = LearnOnce(<<[op |-> "step", state |-> state,
                                action |-> action, obs |-> o.obs,
                                reward |-> o.reward, done |-> o.done,
                                trunc |-> o.trunc]>>, Once)

LearnReplayRecorded ==
    /\ LearnEnd
    /\ hist' = LearnOnce(<<[op |-> "end", model |-> model']>>, Once)

NextLearn ==
    \/ \E n \in 1 .. MaxEpisodes : LearnCallRecorded(n)
    \/ LearnEpisode
    \/ LearnStepRecorded
    \/ LearnReplayRecorded
    \/ LearnReturn

SpecLearn == Init /\ [][NextLearn]_vars

\* -------------------------------------------------------------------- test
\* agent.test(n) is called; the financial agent saves min_accuracy and sets 0.5
TestCall(n) ==
    /\ pc = "idle"
    /\ pc' = "test_episode"
    /\ episodes' = n
    /\ e' = 1
    /\ IF kind = "gym" THEN UNCHANGED <<ma, min_accuracy>>
       ELSE ma' = min_accuracy /\ min_accuracy' = TestMinAccuracy
    /\ raised' = "none"
    /\ ret' = NoRet
    /\ hist' = TestNoted(hist)
    /\ UNCHANGED <<kind, data, feature, n_features, isReset, bar, treward,
                   accuracy, agentVars, f, state, histVars, lastEnd,
                   lastAction, learned>>

\* for e in range(1, episodes + 1): state, _ = self.env.reset()
TestEpisode ==
    /\ pc = "test_episode"
    /\ e <= episodes
    /\ EnvReset
    /\ \E o \in ResetObs :
        /\ state' = o
        /\ ret' = [op |-> "reset", obs |-> o, reward |-> 0, done |-> FALSE,
                   trunc |-> FALSE]
    /\ f' = 1
    /\ pc' = "test_step"
    /\ UNCHANGED <<min_accuracy, agentVars, episodes, e, ma, raised, lastEnd,
                   lastAction, hist, learned>>

\* test, after the episode loop: self.env.min_accuracy = ma
RestoredAccuracyKept == min_accuracy
RestoredAccuracy == ma

\* the episode loop is over: self.env.min_accuracy = ma (financial agent)
TestReturn ==
    /\ pc = "test_episode"
    /\ e > episodes
    /\ min_accuracy' = IF kind = "gym" THEN min_accuracy ELSE RestoredAccuracy
    /\ Return
    /\ UNCHANGED <<kind, data, feature, n_features, isReset, bar, treward,
                   accuracy, agentVars, raised, histVars, hist, learned>>

\* one pass of `for f in range(1, 5001)`: argmax, step, and the end of the
\* loop by `break` or by the end of the range
TestStep ==
    /\ pc = "test_step"
    /\ \E action \in TestChoices : \E o \in StepOutcomes(action) :
        /\ EnvStep(o)
        /\ ret' = Ret("step", o)
        /\ lastAction' = [by |-> "test", a |-> action]
        /\ state' = o.obs
        /\ IF EpisodeOver(o) \/ ~(RangeNext(f) < RangeEndTest)
           THEN /\ f' = f /\ e' = e + 1 /\ pc' = "test_episode"
                /\ hist' = EpisodeNoted(hist, f, o.accuracy)
           ELSE /\ f' = RangeNext(f) /\ e' = e /\ pc' = pc
                /\ hist' = hist
    /\ UNCHANGED <<min_accuracy, agentVars, episodes, ma, raised, lastEnd,
                   learned>>

\* ------------------------------------------------- replay, called directly
\* agent.replay() with len(memory) >= batch_size
ReplayCall ==
    /\ pc = "idle"
    /\ Len(memory) >= BatchSize
    /\ ReplayEffect
    /\ raised' = "none"
    /\ ret' = [NoRet EXCEPT !.op = "replay"]
    /\ hist' = <<>>
    /\ UNCHANGED <<envVars, frameVars, histVars, lastEnd, lastAction, learned>>

\* agent.replay() with len(memory) < batch_size: random.sample raises
\* ValueError (sample larger than population)
ReplayRaises ==
    /\ pc = "idle"
    /\ Len(memory) < BatchSize
    /\ raised' = "ValueError"
    /\ ret' = [NoRet EXCEPT !.op = "replay"]
    /\ UNCHANGED <<envVars, agentVars, frameVars, histVars, lastEnd,
                   lastAction, hist, learned>>

Next ==
    \/ \E n \in 1 .. MaxEpisodes : LearnCall(n)
    \/ LearnEpisode
    \/ LearnStep
    \/ LearnReplay
    \/ LearnReturn
    \/ \E n \in TestArgs : TestCall(n)
    \/ TestEpisode
    \/ TestStep
    \/ TestReturn
    \/ ReplayCall
    \/ ReplayRaises

Spec == Init /\ [][Next]_vars

\* ------------------------------------------------------- RandomAgent.play
\* RandomAgent.__init__: self.env = Finance('EUR=', 'r')
PlayConfigs == {Config(len, 4, sh, "r", 485) : len \in {6, 8}, sh \in {"up", "zigzag"}}

InitPlay ==
    /\ kind = "play"
    /\ \E c \in PlayConfigs :
        /\ data = PrepareData(RawSeries(c.shape, c.len + 1))
        /\ feature = c.feature
        /\ n_features = c.n
        /\ min_accuracy = c.min_accuracy
    /\ epsilon = <<1, 1>>
    /\ memory = <<>>
    /\ model = 0
    /\ trewards = <<>>
    /\ max_treward = 0
    /\ InitRest

\* ra.play(n) is called: self.trewards = list()
PlayCall(n) ==
    /\ kind = "play"
    /\ pc = "idle"
    /\ pc' = "play_episode"
    /\ episodes' = n
    /\ e' = 0
    /\ trewards' = <<>>
    /\ raised' = "none"
    /\ ret' = NoRet
    /\ UNCHANGED <<envVars, epsilon, memory, model, max_treward, f, state, ma,
                   histVars, lastEnd, lastAction, hist, learned>>

\* for e in range(episodes): self.env.reset()
PlayEpisode ==
    /\ pc = "play_episode"
    /\ e < episodes
    /\ EnvReset
    /\ \E o \in ResetObs :
        ret' = [op |-> "reset", obs |-> o, reward |-> 0, done |-> FALSE,
                trunc |-> FALSE]
    /\ f' = 1
    /\ pc' = "play_step"
    /\ UNCHANGED <<min_accuracy, agentVars, episodes, e, state, ma, raised,
                   lastEnd, lastAction, hist, learned>>

\* the episode loop is over: play returns
PlayReturn ==
    /\ pc = "play_episode"
    /\ e >= episodes
    /\ Return
    /\ UNCHANGED <<envVars, agentVars, raised, histVars, hist, learned>>

\* one pass of `for step in range(1, 100)`: sample, step, and the end of the
\* loop by `break` or by the end of the range
PlayStep ==
    /\ pc = "play_step"
    /\ \E action \in Actions : \E o \in StepOutcomes(action) :
        /\ EnvStep(o)
        /\ ret' = Ret("step", o)
        /\ lastAction' = [by |-> "play", a |-> action]
        /\ IF o.done
           THEN /\ trewards' = Append(trewards, f)
                /\ f' = f /\ e' = e + 1 /\ pc' = "play_episode"
           ELSE /\ UNCHANGED trewards
                /\ IF RangeNext(f) < RangeEndPlay
                   THEN f' = RangeNext(f) /\ e' = e /\ pc' = pc
                   ELSE f' = f /\ e' = e + 1 /\ pc' = "play_episode"
    /\ UNCHANGED <<min_accuracy, epsilon, memory, model, max_treward, episodes,
                   state, ma, raised, lastEnd, hist, learned>>

NextPlay ==
    \/ \E n \in 1 .. MaxEpisodes : PlayCall(n)
    \/ PlayEpisode
    \/ PlayStep
    \/ PlayReturn

\* ------------------------------------------- the calls, run to their end
InitCalls == Init \/ InitPlay

\* the calls of learn, test and play
NextCalls ==
    \/ /\ kind # "play"
       /\ \/ \E n \in 1 .. MaxEpisodes : LearnCall(n)
          \/ LearnEpisode
          \/ LearnStep
          \/ LearnReplay
          \/ LearnReturn
          \/ \E n \in TestArgs : TestCall(n)
          \/ TestEpisode
          \/ TestStep
          \/ TestReturn
    \/ NextPlay

\* the passes of a call that has begun: the interpreter runs it on
Running ==
    \/ LearnEpisode \/ LearnStep \/ LearnReplay \/ LearnReturn
    \/ TestEpisode \/ TestStep \/ TestReturn
    \/ PlayEpisode \/ PlayStep \/ PlayReturn

SpecCalls == InitCalls /\ [][NextCalls]_vars /\ WF_vars(Running)

\* ================================================================== claims

\* C1: for any sequence of learn and test calls, of the CartPole and of the
\* financial agent, the replay buffer never holds more transitions than its
\* capacity.
C1_MemoryBounded == Len(memory) <= Capacity

\* the buffer was full when the previous episode ended, and a further episode
\* has appended to it
C1_Witness ==
    /\ pc = "learn_replay"
    /\ lastEnd # <<>>
    /\ lastEnd[1] = Capacity
    /\ Len(memory) = Capacity

\* C2: after k appends the buffer holds exactly the last min(k, Capacity)
\* appended transitions, in the order of their insertion.
C2_Fifo ==
    LET k == Len(hist)
    IN  memory = SubSeq(hist, k - Min(k, Capacity) + 1, k)

\* more appends than the capacity, and the evicted transitions differ from
\* the kept ones
C2_Witness ==
    /\ Len(hist) = MaxAppends
    /\ MaxAppends > Capacity
    /\ hist[1] # hist[Len(hist)]
    /\ hist[Len(hist) - Capacity] # hist[Len(hist) - Capacity + 1]

\* C3: in every reachable state of the agent, epsilon >= epsilon_min.
C3_EpsilonFloor == RatLeq(EpsilonMin, epsilon)

\* C4: epsilon never increases, over learn calls, test calls and replay.
C4_EpsilonNonIncreasing == [][RatLeq(epsilon', epsilon)]_vars

\* epsilon has decayed and two training episodes are recorded
C4_Witness == RatLess(epsilon, <<1, 1>>) /\ Len(trewards) >= 2

\* C5: after every step of an episode of the financial environment, accuracy
\* is exactly (steps of this episode with reward 1) / (steps of this episode).
C5_Accuracy ==
    epSteps > 0 =>
        /\ accuracy # <<>>
        /\ RatEq(accuracy, <<epOnes, epSteps>>)

\* a later episode, after rewards of both kinds
C5_Witness ==
    /\ epSteps >= 3
    /\ 0 < epOnes
    /\ epOnes < epSteps
    /\ raised = "none"
    /\ bar > n_features + 2

\* C6: the accuracy rule ends an episode only when accuracy is below
\* min_accuracy and at least 15 steps of the episode have elapsed.
C6_AccuracyStopAfter15 ==
    doneCause = "accuracy" =>
        /\ RatLess(accuracy, <<min_accuracy, 1000>>)
        /\ epSteps >= 15

C8_ReplayIffBatch ==
    lastEnd # <<>> => (lastEnd[2] = 1 <=> lastEnd[1] >= BatchSize)

\* C9: replay() on a buffer of fewer than batch_size transitions returns
\* normally and changes nothing.
C9_ReplayNoOp ==
    (ret.op = "replay" /\ Len(memory) < BatchSize) => raised = "none"

\* C10: test appends nothing to the buffer, leaves the approximator, epsilon,
\* trewards and max_treward as they are, and takes the argmax action at
\* every step, whatever epsilon is.
C10_TestFrame ==
    [][(pc \in {"test_episode", "test_step"} \/ pc' = "test_episode") =>
            /\ UNCHANGED agentVars
            /\ pc = "test_step" =>
                    /\ lastAction'.by = "test"
                    /\ lastAction'.a = Greedy(model, state)]_vars

\* test is inside an episode, after a step, with epsilon = 1 and a buffer
\* that holds transitions
C10_Witness ==
    /\ pc = "test_step"
    /\ lastAction.by = "test"
    /\ RatEq(epsilon, <<1, 1>>)
    /\ memory # <<>>

\* C11: in the financial environment step(action) returns reward 1 if action
\* equals the direction label d of the row at the current bar and reward 0
\* otherwise; no other reward is returned.
C11_Reward ==
    [][\A a \in Actions :
          Step(a) =>
            /\ ret'.reward \in {0, 1}
            /\ ret'.reward = 1 <=> a = data[bar + 1].d]_vars

\* a step that returned reward 0 in an episode that also had reward 1
C11_Witness ==
    /\ ret.op = "step"
    /\ ret.reward = 0
    /\ epOnes >= 1
    /\ epSteps >= 2

\* C12: in a financial environment with len(data) > n_features, the
\* observation returned by reset and by every step of an episode, the
\* terminal step included, has exactly n_features elements.
C12_ObsLength ==
    (Len(data) > n_features /\ ret.op \in {"reset", "step"}) =>
        Len(ret.obs) = n_features

\* the observation of a terminal step at the end of the data, in an episode
\* with a wrong prediction
C12_Witness ==
    /\ Len(data) > n_features
    /\ ret.op = "step"
    /\ ret.done
    /\ doneCause = "data"
    /\ bar = Len(data)
    /\ epOnes < epSteps
    /\ Len(ret.obs) = n_features

\* the first n_features standardized values of the feature column
InitialObs ==
    [i \in 1 .. Min(n_features, Len(data)) |-> data_(feature, i)]

\* what the steps with the actions acts return on an environment whose bar
\* is b and whose treward is tr
RECURSIVE FreshRun(_, _, _)
FreshRun(acts, b, tr) ==
    IF acts = <<>> THEN <<>>
    ELSE LET o == StepAt(b, tr, Head(acts))
         IN  <<[op |-> "step", action |-> Head(acts), obs |-> o.obs,
                reward |-> o.reward, done |-> o.done]>>
                \o FreshRun(Tail(acts), o.bar, o.treward)

\* C13: reset can be called after any sequence of steps, inside an episode
\* and after a terminal step, and starts an independent episode: it returns
\* the same initial observation, and the (observation, reward, done) returned
\* by the steps after it are those of the same actions on an environment
\* that has just been reset for the first time.
C13_ResetIndependent ==
    hist # <<>> =>
        /\ hist[1].obs = InitialObs
        /\ Tail(hist) =
                FreshRun([i \in 1 .. (Len(hist) - 1) |-> hist[i + 1].action],
                         n_features, 0)

\* a reset after a terminal step of an episode with right and wrong
\* predictions, followed by steps up to a terminal one
C13_Witness ==
    /\ hist # <<>>
    /\ hist[1].prior >= 2
    /\ hist[1].priorDone
    /\ Len(hist) >= 3
    /\ hist[Len(hist)].done
    /\ hist[2].reward # hist[Len(hist)].reward

\* the largest output of the approximator with parameters w at state s
BestOutput(w, s) ==
    CHOOSE m \in {Predict(w, s)[a] : a \in Actions} :
        \A a \in Actions : m >= Predict(w, s)[a]

\* C14: in replay, for each sampled transition the target of the taken
\* action is the reward when the stored terminal flag is true, and
\* reward + gamma * (largest output of the approximator at next_state)
\* when it is false (values in tenths).
C14_Target ==
    \A i \in 1 .. Len(hist) :
        LET h == hist[i]
        IN  h.target[h.t.action] =
                IF h.t.done THEN 10 * h.t.reward
                ELSE 10 * h.t.reward
                        + Gamma10 * BestOutput(h.w, h.t.next_state)

\* a replay whose batch holds a terminal transition and a transition that is
\* not terminal and whose target is larger than its reward
C14_Witness ==
    /\ ret.op = "replay"
    /\ Len(hist) >= 2
    /\ hist[1].t.done
    /\ ~hist[2].t.done
    /\ hist[2].target[hist[2].t.action] > 10 * hist[2].t.reward
    /\ hist[1].target[hist[1].t.action] = 10 * hist[1].t.reward

\* C15: every call of learn, test and play returns, whatever the environment
\* returns: the step loop of an episode makes at most RangeEndLearn - 1
\* passes in learn, RangeEndTest - 1 in test and RangeEndPlay - 1 in play
\* (4999, 5000 and 99 in the notebooks), also when the environment never
\* returns done.
C15_Terminates ==
    /\ [](pc \in {"learn_step", "learn_replay"} => f <= RangeEndLearn - 1)
    /\ [](pc = "test_step" => f <= RangeEndTest - 1)
    /\ [](pc = "play_step" => f <= RangeEndPlay - 1)
    /\ (pc # "idle") ~> (pc = "idle")

\* an episode of learn ended by the end of the range: its last step was the
\* last pass and returned neither done nor trunc
C15_Witness ==
    /\ pc = "learn_replay"
    /\ f = RangeEndLearn - 1
    /\ ret.op = "step"
    /\ ~ret.done
    /\ ~ret.trunc

\* the largest element of a sequence of naturals, 0 if it is empty
RECURSIVE MaxSeq(_)
MaxSeq(q) == IF q = <<>> THEN 0 ELSE Max(Head(q), MaxSeq(Tail(q)))

\* C16: learn(n) records every one of its n episodes: when learn has
\* returned, trewards holds one length for every episode asked of learn so
\* far, the episodes ended by the end of the range included, and max_treward
\* is the largest of them.
C16_EveryEpisodeRecorded ==
    pc = "idle" =>
        /\ Len(trewards) = learned
        /\ max_treward = MaxSeq(trewards)

\* C17: two calls of test in a row on the financial agent, with the same
\* approximator and no training in between, give the same length and the
\* same final accuracy in every episode of both calls: the episodes of test
\* since the last training have one outcome.
C17_TestRepeatable ==
    Cardinality({i \in DOMAIN hist : hist[i].op = "episode"}) <= 1

\* the second of two test calls in a row has ended an episode, after
\* training
C17_Witness ==
    /\ kind = "finance"
    /\ Len(hist) = 3
    /\ hist[2].op = "episode"
    /\ hist[3].op = "test"
    /\ pc = "test_episode"
    /\ e > 1
    /\ learned > 0
    /\ hist[2].len = 2

\* C18: learn is cumulative across calls: calls of learn one after the other
\* raise no error and leave epsilon, the replay buffer, trewards and
\* max_treward (and the approximator, once an episode has ended) as one call
\* of learn over all their episodes leaves them, given the same returns of
\* the environment and the same random draws.
C18_LearnCumulative ==
    /\ raised = "none"
    /\ memory = Once.memory
    /\ trewards = Once.trewards
    /\ max_treward = Once.max_treward
    /\ epsilon = Once.epsilon
    /\ model = Once.model

\* a second call of learn has run its episode after a first call that
\* recorded an episode; the buffer holds transitions of both
C18_Witness ==
    /\ pc = "learn_episode"
    /\ episodes = 1
    /\ e = 2
    /\ learned = 2
    /\ Len(trewards) = 2
    /\ Len(memory) = 2
    /\ RatLess(epsilon, <<1, 1>>)

\* C19: a financial environment constructed with a symbol that is not a
\* column of the data, or over a column whose standardization has zero
\* variance, fails at construction: no environment that the constructor
\* returned yields a NaN or infinite observation.
C19_FailFast ==
    /\ raised = "KeyError" => data = <<>> /\ ret.op = "none"
    /\ ret.op \in {"reset", "step"} =>
            \A i \in DOMAIN ret.obs : ret.obs[i] # NaN

\* the gradient updates of the recorded fits: one per epoch of each
RECURSIVE Updates(_)
Updates(h) == IF h = <<>> THEN 0 ELSE Head(h).epochs + Updates(Tail(h))

\* C20: a call of replay performs exactly one update of the approximator, a
\* single fit over the sampled batch, so that training makes one gradient
\* update per episode in which replay runs.
C20_OneUpdate ==
    (ret.op = "replay" /\ raised = "none") =>
        /\ Len(hist) = 1
        /\ Updates(hist) = 1

\* epsilon after one multiplication by epsilon_decay unless the floor is
\* reached
OneDecay(eps, eps2) ==
    IF RatLess(EpsilonMin, eps) THEN RatEq(eps2, RatMul(eps, EpsilonDecay))
    ELSE eps2 = eps

C22_CorrectStepGoesOn ==
    (ret.op = "step" /\ raised = "none") =>
        /\ ret.reward = 1 => (ret.done <=> bar >= Len(data))
        /\ doneCause = "accuracy" => ret.reward = 0 /\ ret.done

\* a correct prediction with the accuracy below min_accuracy after bar 15,
\* before the end of the data
C22_Witness ==
    /\ ret.op = "step"
    /\ raised = "none"
    /\ ret.reward = 1
    /\ ~ret.done
    /\ RatLess(accuracy, <<min_accuracy, 1000>>)
    /\ bar > MinBar
    /\ bar < Len(data)

\* C23: in replay, for each sampled transition the target of every action
\* other than the taken one is the output the approximator gives for the
\* transition's state with the parameters it has at that pass (values in
\* tenths), so the fit is asked to move the taken action's output only.
C23_OtherActionsKept ==
    \A i \in 1 .. Len(hist) :
        LET h == hist[i]
        IN  \A a \in Actions \ {h.t.action} :
                h.target[a] = 10 * Predict(h.w, h.t.state)[a]

\* a replay whose first fit changed the parameters, and whose second pass
\* asks to move the output of the taken action and of no other
C23_Witness ==
    /\ ret.op = "replay"
    /\ Len(hist) >= 2
    /\ hist[2].w # hist[1].w
    /\ hist[2].target[hist[2].t.action]
            # 10 * Predict(hist[2].w, hist[2].t.state)[hist[2].t.action]
    /\ hist[2].target[1 - hist[2].t.action]
            # 10 * Predict(hist[1].w, hist[2].t.state)[1 - hist[2].t.action]

\* C24: a transition is not changed once recorded. Every step of replay,
\* test and learn leaves the transitions of the buffer as they are, in their
\* order; only a pass of learn's step loop changes the buffer, by appending
\* one transition, and an entry leaves only as the oldest one of a full
\* buffer.
C24_TransitionsKept ==
    [][/\ pc # "learn_step" => memory' = memory
       /\ \E k \in {0, 1} :
            /\ k = 1 => Len(memory) = Capacity /\ Len(memory') = Capacity
            /\ Len(memory') >= Len(memory) - k
            /\ \A i \in 1 .. Len(memory) - k : memory'[i] = memory[i + k]]_vars

\* a test call that follows a replay (epsilon has decayed) over a full buffer
\* that holds a transition that is not terminal
C24_Witness ==
    /\ pc = "test_step"
    /\ RatLess(epsilon, <<1, 1>>)
    /\ Len(memory) = Capacity
    /\ \E i \in 1 .. Len(memory) : ~memory[i].done

\* C25: after any sequence of learn calls, and inside them, max_treward is
\* the largest of 0 and the episode lengths recorded in trewards so far, and
\* no step decreases it.
C25_MaxTreward ==
    /\ [](max_treward = MaxSeq(trewards))
    /\ [][max_treward' >= max_treward]_vars

\* a second call of learn has recorded an episode shorter than the best one
C25_Witness ==
    /\ Len(trewards) >= 2
    /\ trewards[Len(trewards)] < max_treward
    /\ learned >= 2
    /\ episodes = 1

\* C26: in learn of the CartPole agent, a step that returns trunc = True and
\* done = False ends the episode (its length is recorded) and its transition
\* is stored with terminal flag False, so the target replay computes for it
\* is reward + gamma * (largest output at next_state), not the reward
\* (values in tenths).
C26_TruncatedStoredOpen ==
    (kind = "gym" /\ pc = "learn_replay" /\ ret.op = "step"
        /\ ret.trunc /\ ~ret.done) =>
        LET t == memory[Len(memory)]
        IN  /\ trewards # <<>>
            /\ trewards[Len(trewards)] = f
            /\ t.next_state = ret.obs
            /\ ~t.done
            /\ Target(model, t)[t.action] =
                    10 * t.reward + Gamma10 * BestOutput(model, t.next_state)

\* the first step of an episode of the CartPole agent is truncated, and the
\* target of its transition is larger than its reward
C26_Witness ==
    /\ kind = "gym"
    /\ pc = "learn_replay"
    /\ ret.op = "step"
    /\ ret.trunc
    /\ ~ret.done
    /\ f = 1
    /\ Target(model, memory[Len(memory)])[memory[Len(memory)].action]
            > 10 * memory[Len(memory)].reward

\* the passes of the step loops of learn, test and play
StepLoops == {"learn_step", "test_step", "play_step"}

\* C27: in the loops of play, learn and test over a financial environment
\* with len(data) > n_features, from the first reset on the time pointer
\* satisfies n_features <= bar <= len(data), step is never called with
\* bar >= len(data), and every step increases bar by exactly 1.
C27_BarInRange ==
    /\ []((kind \in {"finance", "play"} /\ isReset
                /\ Len(data) > n_features) =>
            /\ n_features <= bar
            /\ bar <= Len(data)
            /\ raised = "none"
            /\ pc \in StepLoops => bar < Len(data))
    /\ [][(kind \in {"finance", "play"} /\ pc \in StepLoops) =>
                bar' = bar + 1]_vars

\* an episode of an agent has used up the data, and the next episode has
\* made a step
C27_Witness ==
    /\ kind \in {"finance", "play"}
    /\ pc \in StepLoops
    /\ trewards # <<>>
    /\ trewards[Len(trewards)] = Len(data) - n_features
    /\ bar = n_features + 1
    /\ epSteps = 1

\* C28: a step of the financial environment that returns done = True is
\* step number L of its episode with
\* max(1, min(16, len(data)) - n_features) <= L <= len(data) - n_features,
\* and L = len(data) - n_features exactly when the episode ended by the end
\* of the data.
C28_EpisodeLength ==
    (ret.op = "step" /\ ret.done /\ raised = "none") =>
        /\ Max(1, Min(MinBar + 1, Len(data)) - n_features) <= epSteps
        /\ epSteps <= Len(data) - n_features
        /\ epSteps = Len(data) - n_features <=> doneCause = "data"

\* an episode ended by the accuracy rule at the least length, over more than
\* 16 rows
C28_Witness ==
    /\ ret.op = "step"
    /\ ret.done
    /\ doneCause = "accuracy"
    /\ Len(data) > MinBar + 1
    /\ epSteps = MinBar + 1 - n_features
    /\ epSteps > 1

\* the passes of test
TestLoops == {"test_episode", "test_step"}

\* C29: the financial agent's test runs all its episodes with
\* env.min_accuracy = 0.5, holding the value of before the call in ma, and
\* outside test, so in every learn call after it, env.min_accuracy is the
\* configured threshold (values in thousandths).
C29_MinAccuracyRestored ==
    kind = "finance" =>
        \E c \in AgentConfigs :
            /\ c.min_accuracy # TestMinAccuracy
            /\ IF pc \in TestLoops
               THEN min_accuracy = TestMinAccuracy /\ ma = c.min_accuracy
               ELSE min_accuracy = c.min_accuracy

\* the first learn call begins after a test call has stepped the
\* environment and returned
C29_Witness ==
    /\ kind = "finance"
    /\ pc = "learn_episode"
    /\ e = 1
    /\ learned = episodes
    /\ epSteps > 0
    /\ min_accuracy # TestMinAccuracy

\* C30: from epsilon = 1 with 0 < epsilon_decay < 1, after any number of
\* replay calls epsilon > epsilon_min * epsilon_decay, and once
\* epsilon <= epsilon_min no step of replay, learn or test changes it.
C30_EpsilonLowerBound ==
    /\ [](RatLess(RatMul(EpsilonMin, EpsilonDecay), epsilon))
    /\ [][RatLeq(epsilon, EpsilonMin) => epsilon' = epsilon]_vars

\* a replay call has returned with epsilon below epsilon_min
C30_Witness ==
    /\ ret.op = "replay"
    /\ raised = "none"
    /\ RatLess(epsilon, EpsilonMin)
    /\ RatLess(<<0, 1>>, EpsilonDecay)
    /\ RatLess(EpsilonDecay, <<1, 1>>)

====
